---- MODULE Spec2Model ----
(***************************************************************************)
(* The vid.ai editor store (stores/editorStore.ts), the views that drive   *)
(* it (EditorView.vue, HomeView.vue) and the segmentation service seen at  *)
(* its boundary (api/videoService.ts); and the replace effect of the demo   *)
(* player (effects/ReplaceGLEffect.ts) with the WebGL state it drives.     *)
(*                                                                         *)
(* JavaScript runs one task at a time: an action of this module is the     *)
(* code that runs between two awaits, i.e. an event handler up to its      *)
(* first await, or the settlement of one request together with the         *)
(* continuation (and the finally blocks and callers' continuations, which  *)
(* run as microtasks) up to the next await.                                *)
(***************************************************************************)
EXTENDS Integers, Sequences, FiniteSets, TLC

(* ------------------------------ bounds --------------------------------- *)
\* the video has the frames 0..MaxFrame
MaxFrame == 1
\* gallery videos 1..NumVideos
NumVideos == 1
\* distinct click positions on the interaction canvas
NumClicks == 2
\* how many times each handler is run in one behaviour
MaxSelects == 2
MaxAdds == 2
MaxProps == 2
MaxChats == 1
\* how many endSession calls may be pending or have returned at once
MaxEnds == 2
\* how many handler runs of these four kinds one behaviour has in all
MaxCalls == 4
\* the replace effect: the most masks a frame has, how many times setupUniforms
\* and setCustomImage run, and the custom images there are
MaxMasks == 4
MaxSetups == 2
MaxLoads == 2
NumImages == 2
\* the text prompt form: how many times it is submitted, and the objects the
\* service can report
MaxSubmits == 3
NumObjects == 2

Frames == 0..MaxFrame
Videos == 1..NumVideos
Clicks == 1..NumClicks

(* ------------------------------ state ---------------------------------- *)
VARIABLES
  \* editorStore.ts:9-19, the refs of the store
  isLoading, currentVideo, sessionId, chatMessages, currentFrame,
  points, masks, videoFrames, isProcessing, processingProgress, instructions,
  \* EditorView.vue:231 and the router
  pointMode, route,
  \* the service: the sessions that exist on it, and the ids it has given out
  serverSessions, created,
  \* calls of the store that are suspended at an await
  selects, ends, adds, props, chats,
  \* ReplaceGLEffect.ts:33-44, the fields of the effect (gl and program stand
  \* for _gl and _program being set, bitmap for the length of _bitmap)
  variant, gl, program, bitmap, customImage, useCustomImage, extraTexture, maskTextures,
  \* the WebGL context: textures created and deleted, the active unit, the
  \* texture bound on each unit, what the replacement texture holds, the uniforms
  nextTex, deletedTex, activeUnit, boundTex, content,
  uNumMasks, uFill, uUseCustomImage,
  \* what the last drawArrays drew, and the calls of the effect suspended at an await
  lastDraw, setups, loads,
  \* the replacement source the latest call of setCustomImage or
  \* resetToDefaultImages asked for: an image, or Null for the icons
  wanted,
  \* LLMInput.tsx: the state of the component, the atoms it uses and its
  \* mutations in flight
  llmInput

storeVars == <<isLoading, currentVideo, sessionId, chatMessages, currentFrame,
               points, masks, videoFrames, isProcessing, processingProgress,
               instructions>>
viewVars == <<pointMode, route>>
serverVars == <<serverSessions, created>>
callVars == <<selects, ends, adds, props, chats>>
fieldVars == <<variant, gl, program, bitmap, customImage, useCustomImage, extraTexture,
               maskTextures>>
glVars == <<nextTex, deletedTex, activeUnit, boundTex, content, uNumMasks, uFill,
            uUseCustomImage>>
effectVars == <<fieldVars, glVars, lastDraw, setups, loads, wanted>>
editorVars == <<storeVars, viewVars, serverVars, callVars>>
vars == <<editorVars, effectVars, llmInput>>

\* null of a ref that holds an id
Null == 0
\* a JS object with no keys ({}): a function with an empty domain
EmptyMap == [k \in {} |-> 0]

\* obj[k] = v on a JS object
Put(obj, k, v) == [j \in (DOMAIN obj) \cup {k} |-> IF j = k THEN v ELSE obj[j]]

Min(S) == CHOOSE x \in S : \A y \in S : x <= y
Max(S) == CHOOSE x \in S : \A y \in S : x >= y

\* a sequence without its element i
Remove(s, i) == SubSeq(s, 1, i - 1) \o SubSeq(s, i + 1, Len(s))

Range(s) == {s[k] : k \in DOMAIN s}

\* replace element i of a sequence
SetAt(s, i, v) == [s EXCEPT ![i] = v]

\* the handler runs so far that the bounds count
Calls == Len(selects) + Len(adds) + Len(props) + Len(chats)
\* the EditorView component instance on screen: openEditor mounts a new one
mount == Len(selects)

hasActiveSession == sessionId # Null
hasPoints == DOMAIN points # {}

(* --------------------------- resetEditorState -------------------------- *)
\* what resetEditorState assigns, as the values of the eight refs
ResetValues ==
  [points |-> EmptyMap, masks |-> EmptyMap, currentFrame |-> 0, videoFrames |-> 0,
   chatMessages |-> <<>>, isProcessing |-> FALSE, processingProgress |-> 0,
   instructions |-> Null]

\* resetEditorState as it would be if it left the masks in place
resetEditorStateKeepingMasks ==
  /\ points' = ResetValues.points
  /\ masks' = masks
  /\ currentFrame' = ResetValues.currentFrame
  /\ videoFrames' = ResetValues.videoFrames
  /\ chatMessages' = ResetValues.chatMessages
  /\ isProcessing' = ResetValues.isProcessing
  /\ processingProgress' = ResetValues.processingProgress
  /\ instructions' = ResetValues.instructions

resetEditorState ==
  /\ points' = ResetValues.points
  /\ masks' = ResetValues.masks
  /\ currentFrame' = ResetValues.currentFrame
  /\ videoFrames' = ResetValues.videoFrames
  /\ chatMessages' = ResetValues.chatMessages
  /\ isProcessing' = ResetValues.isProcessing
  /\ processingProgress' = ResetValues.processingProgress
  /\ instructions' = ResetValues.instructions

(* --------------------------- the replace effect ------------------------ *)
\* super(6): the variants of the effect; the built-in icons; the mask textures
\* setupUniforms pre-allocates; the texture units of the replacement texture
\* and of the first mask
NumVariants == 6
NumIcons == 3
MaskSlots == 3
ExtraTextureUnit == 1
MasksTextureUnitStart == 2

Variants == 0..(NumVariants - 1)
Images == 1..NumImages
\* the texture units apply can reach
Units == ExtraTextureUnit..(MasksTextureUnitStart + MaxMasks - 1)

\* what a texture holds: nothing, icon k, custom image k, or the mask of index k
Holds(kind, of) == [kind |-> kind, of |-> of]
Blank == Holds("none", 0)
\* the last apply: whether it reached drawArrays, the masks of its context, the
\* indexes of those uploaded, what this apply filled the replacement texture
\* from (Blank when it uploaded neither an icon nor the custom image), and the
\* mask whose decoding threw (index + 1, 0 when none did); here before the
\* first apply
NoDraw == [drawn |-> FALSE, numMasks |-> 0, uploaded |-> {}, from |-> Blank, bad |-> 0]

\* LLMInput.tsx:125-134: useState(''), useState(false), useState(null), and the
\* atoms before a session is started; commits are the mutations sent, submits
\* counts the submit events handled
NoResult == [shown |-> FALSE, success |-> FALSE, message |-> "none"]
NoInput ==
  [prompt |-> "", session |-> Null, isProcessing |-> FALSE, result |-> NoResult,
   activeTrackletObjectId |-> Null, commits |-> <<>>, submits |-> 0]

Init ==
  /\ variant = 0
  /\ gl = FALSE
  /\ program = FALSE
  /\ bitmap = 0
  /\ customImage = Null
  /\ useCustomImage = FALSE
  /\ extraTexture = Null
  /\ maskTextures = <<>>
  /\ nextTex = 0
  /\ deletedTex = {}
  /\ activeUnit = 0
  /\ boundTex = [u \in Units |-> Null]
  /\ content = Blank
  /\ uNumMasks = 0
  /\ uFill = 0
  /\ uUseCustomImage = FALSE
  /\ lastDraw = NoDraw
  /\ setups = <<>>
  /\ loads = <<>>
  /\ wanted = Null
  /\ llmInput = NoInput
  /\ isLoading = FALSE
  /\ currentVideo = Null
  /\ sessionId = Null
  /\ chatMessages = <<>>
  /\ currentFrame = 0
  /\ points = EmptyMap
  /\ masks = EmptyMap
  /\ videoFrames = 0
  /\ isProcessing = FALSE
  /\ processingProgress = 0
  /\ instructions = Null
  /\ pointMode = "null"
  /\ route = "home"
  /\ serverSessions = {}
  /\ created = 0
  /\ selects = <<>>
  /\ ends = <<>>
  /\ adds = <<>>
  /\ props = <<>>
  /\ chats = <<>>


(* ------------------------- the propagation stream ---------------------- *)
NL == "\n"
\* the text of one frame record, {frame_idx: f, masks: [...]}, as the pieces a
\* chunk boundary can separate
RecordText(f) == <<"{", ToString(f), "}">>

\* the body of the propagate response for a seed frame: one line per frame
\* from the seed to the last frame, each ended by a newline
RECURSIVE StreamFrom(_)
StreamFrom(f) ==
  IF f > MaxFrame THEN <<>> ELSE RecordText(f) \o <<NL>> \o StreamFrom(f + 1)

\* String.prototype.trim on a chunk: leading and trailing newlines go
RECURSIVE TrimLeft(_)
TrimLeft(t) == IF t # <<>> /\ Head(t) = NL THEN TrimLeft(Tail(t)) ELSE t
RECURSIVE TrimRight(_)
TrimRight(t) ==
  IF t # <<>> /\ t[Len(t)] = NL THEN TrimRight(SubSeq(t, 1, Len(t) - 1)) ELSE t
Trim(t) == TrimRight(TrimLeft(t))

\* String.prototype.split('\n'): always at least one (possibly empty) piece
RECURSIVE Split(_)
Split(t) ==
  IF \A i \in 1..Len(t) : t[i] # NL THEN <<t>>
  ELSE LET k == Min({i \in 1..Len(t) : t[i] = NL})
       IN <<SubSeq(t, 1, k - 1)>> \o Split(SubSeq(t, k + 1, Len(t)))

\* JSON.parse of one line: it returns for a whole record and throws otherwise
Parses(line) == \E f \in Frames : line = RecordText(f)
ParsedFrame(line) == CHOOSE f \in Frames : line = RecordText(f)

\* Math.min(100, Math.floor((receivedFrames / totalFrames) * 100))
Progress(receivedFrames, totalFrames) ==
  LET pct == (receivedFrames * 100) \div totalFrames
  IN IF pct < 100 THEN pct ELSE 100

\* videoFrames.value.length || 100
FallbackTotal == 100
TotalFrames(len) == IF len = 0 THEN FallbackTotal ELSE len

(* ------------------------------ the service ---------------------------- *)
\* the body of an addPoints request: the coordinates and the labels of the
\* frame's points, as two lists
PointsRequest(ps) ==
  [points |-> [k \in DOMAIN ps |-> <<ps[k].x, ps[k].y>>],
   labels |-> [k \in DOMAIN ps |-> ps[k].label]]
NoPrompts == [points |-> <<>>, labels |-> <<>>]

\* what a call of an async function of the store has returned to its caller
Pending == [settled |-> "pending", value |-> "none"]
Fulfilled == [settled |-> "fulfilled", value |-> "undefined"]
\* what sendChatMessage returns: null from its catch block, else the parsed
\* instructions
ReturnedNull == [settled |-> "fulfilled", value |-> "null"]
ReturnedInstructions == [settled |-> "fulfilled", value |-> "instructions"]

\* the masks the service returns for an addPoints request: a function of the
\* session, the frame and the prompts it was sent
SegResult(req) == [src |-> "add", sid |-> req.sid, pts |-> req.pts, by |-> 0]
\* the masks of a frame record of propagation i: masks of what the prompts of
\* its seed frame were on when it started
PropResult(i) == [src |-> "prop", sid |-> props[i].sid, pts |-> props[i].seedPts, by |-> i]

\* the object a prompt point lies on, and the objects a list of masks is of:
\* the service answers prompts with the masks of the objects under them
ObjectAt(xy) == xy[1]
MaskObjects(ms) == {ObjectAt(ms.pts.points[k]) : k \in DOMAIN ms.pts.points}

(* ------------------ bookkeeping on suspended propagations -------------- *)
InFlight(p) == p.pc \in {"request", "reading"}

\* a propagation that has returned and of which nothing more is to be known
Over ==
  [sid |-> Null, seed |-> 0, pc |-> "over", pos |-> 0, receivedFrames |-> 0,
   totalFrames |-> 0, caller |-> "none", mount |-> 0, chat |-> 0, applied |-> <<>>,
   pre |-> EmptyMap, clean |-> FALSE, addSince |-> FALSE, resetSeen |-> FALSE,
   seedPts |-> NoPrompts, returned |-> Fulfilled]

\* A propagation owns masks while nothing else has written them since it
\* started (clean); then pre, masks as they were at its start, and applied, the
\* frames it has stored, say what masks must be. Once another writer has come,
\* pre is of no use, and applied only until the stream ends.
Disowned(p) ==
  IF InFlight(p) THEN [p EXCEPT !.clean = FALSE, !.pre = EmptyMap] ELSE Over

\* another writer than propagation `me` has changed masks
Disturb(ps, me) ==
  [i \in DOMAIN ps |-> IF i = me THEN ps[i] ELSE Disowned(ps[i])]

\* addPoint has written masks for session sid: addSince marks the propagations
\* of that session that had stored a frame and were still reading
MarkAdd(ps, sid) ==
  [i \in DOMAIN ps |->
     [Disowned(ps[i]) EXCEPT !.addSince = @ \/ (/\ ps[i].pc = "reading"
                                                /\ ps[i].applied # <<>>
                                                /\ ps[i].sid = sid)]]

\* the user has reset the editor state: resetSeen marks the propagations in flight
MarkReset(ps) ==
  [i \in DOMAIN ps |->
     [Disowned(ps[i]) EXCEPT !.resetSeen = @ \/ InFlight(ps[i])]]

(* --------------------- selectVideo and endSession ---------------------- *)
\* OpenEditor as it would be if selectVideo did not await endSession: the
\* create request goes out while the delete request is still in flight
OpenEditorNotAwaiting(v) ==
  /\ route = "home"
  /\ Len(selects) < MaxSelects
  /\ Calls < MaxCalls
  /\ currentVideo' = v
  /\ isLoading' = TRUE
  /\ selects' = Append(selects, [video |-> v, pc |-> "awaitCreate", sid |-> sessionId])
  /\ ends' = IF sessionId # Null THEN Append(ends, [sid |-> sessionId, pc |-> "awaitEnd"])
             ELSE ends
  /\ route' = "editor"
  /\ pointMode' = "null"
  /\ UNCHANGED <<sessionId, chatMessages, currentFrame, points, masks, videoFrames,
                 isProcessing, processingProgress, instructions>>
  /\ UNCHANGED <<serverVars, adds, props, chats>>
  /\ UNCHANGED <<effectVars, llmInput>>

\* HomeView.vue openEditor: selectVideo(video), not awaited, then the editor
\* route. selectVideo runs to its first await: the delete request of the nested
\* endSession when a session is held, else the create request.
OpenEditor(v) ==
  /\ route = "home"
  /\ Len(selects) < MaxSelects
  /\ Calls < MaxCalls
  /\ IF sessionId # Null
       THEN /\ selects' = Append(selects, [video |-> v, pc |-> "awaitEnd", sid |-> sessionId])
            /\ UNCHANGED <<currentVideo, isLoading>>
       ELSE /\ currentVideo' = v
            /\ isLoading' = TRUE
            /\ selects' = Append(selects, [video |-> v, pc |-> "awaitCreate", sid |-> Null])
  /\ route' = "editor"
  /\ pointMode' = "null"
  /\ UNCHANGED <<sessionId, chatMessages, currentFrame, points, masks, videoFrames,
                 isProcessing, processingProgress, instructions>>
  /\ UNCHANGED <<serverVars, ends, adds, props, chats>>
  /\ UNCHANGED <<effectVars, llmInput>>

\* the delete request of a selectVideo's endSession settles; endSession's finally
\* clears the store, then selectVideo goes on to its create request
SelectEndSettles(i, ok) ==
  /\ i \in DOMAIN selects
  /\ selects[i].pc = "awaitEnd"
  /\ ok => selects[i].sid \in serverSessions
  /\ serverSessions' = IF ok THEN serverSessions \ {selects[i].sid} ELSE serverSessions
  /\ sessionId' = Null
  /\ resetEditorState
  /\ currentVideo' = selects[i].video
  /\ isLoading' = TRUE
  /\ selects' = SetAt(selects, i, [selects[i] EXCEPT !.pc = "awaitCreate", !.sid = Null])
  /\ props' = Disturb(props, 0)
  /\ UNCHANGED <<viewVars, created, ends, adds, chats>>
  /\ UNCHANGED <<effectVars, llmInput>>

\* the create request of a selectVideo settles
CreateSettles(i, ok) ==
  /\ i \in DOMAIN selects
  /\ selects[i].pc = "awaitCreate"
  /\ IF ok
       THEN /\ created' = created + 1
            /\ serverSessions' = serverSessions \cup {created + 1}
            /\ sessionId' = created + 1
            /\ resetEditorState
            /\ props' = Disturb(props, 0)
            /\ selects' = SetAt(selects, i, [selects[i] EXCEPT !.pc = "done"])
       ELSE /\ selects' = SetAt(selects, i, [selects[i] EXCEPT !.pc = "done"])
            /\ UNCHANGED <<created, serverSessions, sessionId, chatMessages, currentFrame,
                           points, masks, videoFrames, isProcessing, processingProgress,
                           instructions, props>>
  /\ isLoading' = FALSE
  /\ UNCHANGED <<currentVideo, viewVars, ends, adds, chats>>
  /\ UNCHANGED <<effectVars, llmInput>>

\* EditorView.vue returnToGallery: endSession(), not awaited, then the home route
ReturnToGallery ==
  /\ route = "editor"
  /\ hasActiveSession
  /\ ends' = Append(ends, [sid |-> sessionId, pc |-> "awaitEnd"])
  /\ route' = "home"
  /\ UNCHANGED <<storeVars, pointMode, serverVars, selects, adds, props, chats>>
  /\ UNCHANGED <<effectVars, llmInput>>

\* EndSettles as it would be if the clearing of the store stood in the try
\* block, after the delete request, instead of in finally
EndSettlesClearingInTry(i, ok) ==
  /\ i \in DOMAIN ends
  /\ ends[i].pc = "awaitEnd"
  /\ ok => ends[i].sid \in serverSessions
  /\ ends' = Remove(ends, i)
  /\ IF ok
       THEN /\ serverSessions' = serverSessions \ {ends[i].sid}
            /\ sessionId' = Null
            /\ currentVideo' = Null
            /\ resetEditorState
            /\ props' = Disturb(props, 0)
       ELSE UNCHANGED <<serverSessions, sessionId, currentVideo, chatMessages,
                        currentFrame, points, masks, videoFrames, isProcessing,
                        processingProgress, instructions, props>>
  /\ UNCHANGED <<isLoading, viewVars, created, selects, adds, chats>>
  /\ UNCHANGED <<effectVars, llmInput>>

\* the delete request of an endSession settles: the finally block runs either way
EndSettles(i, ok) ==
  /\ i \in DOMAIN ends
  /\ ends[i].pc = "awaitEnd"
  /\ ok => ends[i].sid \in serverSessions
  /\ serverSessions' = IF ok THEN serverSessions \ {ends[i].sid} ELSE serverSessions
  /\ sessionId' = Null
  /\ currentVideo' = Null
  /\ resetEditorState
  /\ ends' = Remove(ends, i)
  /\ props' = Disturb(props, 0)
  /\ UNCHANGED <<isLoading, viewVars, created, selects, adds, chats>>
  /\ UNCHANGED <<effectVars, llmInput>>

\* an endSession call that found no session and returned at once
Returned == [sid |-> Null, pc |-> "returned"]

\* endSession called on the store by any component, up to its delete request
\* or, without a session, to its return
endSession ==
  /\ Len(ends) < MaxEnds
  /\ ends' = Append(ends, IF sessionId = Null THEN Returned
                          ELSE [sid |-> sessionId, pc |-> "awaitEnd"])
  /\ UNCHANGED <<storeVars, viewVars, serverVars, selects, adds, props, chats>>
  /\ UNCHANGED <<effectVars, llmInput>>

\* the "Go to Gallery" link of the editor shown without a session
GoToGallery ==
  /\ route = "editor"
  /\ ~hasActiveSession
  /\ route' = "home"
  /\ UNCHANGED <<storeVars, pointMode, serverVars, callVars>>
  /\ UNCHANGED <<effectVars, llmInput>>

(* ------------------------------ the editor ----------------------------- *)
\* the editor's controls exist while the editor route shows a session
EditorShown == route = "editor" /\ hasActiveSession

\* onTimeUpdate: playback or a seek moves the current frame
OnTimeUpdate(f) ==
  /\ EditorShown
  /\ f # currentFrame
  /\ currentFrame' = f
  /\ UNCHANGED <<isLoading, currentVideo, sessionId, chatMessages, points, masks,
                 videoFrames, isProcessing, processingProgress, instructions>>
  /\ UNCHANGED <<viewVars, serverVars, callVars>>
  /\ UNCHANGED <<effectVars, llmInput>>

\* the Add Points button, disabled while isProcessing
StartPointMode ==
  /\ EditorShown
  /\ ~isProcessing
  /\ pointMode = "null"
  /\ pointMode' = "foreground"
  /\ UNCHANGED <<storeVars, route, serverVars, callVars>>
  /\ UNCHANGED <<effectVars, llmInput>>

\* the Clear Points button (disabled without points) and the Reset button, whose
\* resetSession calls resetEditorState and then clearPoints
ClearPoints ==
  /\ EditorShown
  /\ hasPoints
  /\ pointMode' = "null"
  /\ resetEditorState
  /\ props' = MarkReset(props)
  /\ UNCHANGED <<isLoading, currentVideo, sessionId, route, serverVars,
                 selects, ends, adds, chats>>
  /\ UNCHANGED <<effectVars, llmInput>>

ResetSession ==
  /\ EditorShown
  /\ pointMode' = "null"
  /\ resetEditorState
  /\ props' = MarkReset(props)
  /\ UNCHANGED <<isLoading, currentVideo, sessionId, route, serverVars,
                 selects, ends, adds, chats>>
  /\ UNCHANGED <<effectVars, llmInput>>

(* ------------------------------- addPoint ------------------------------ *)
CanvasPoint(c) == [x |-> c, y |-> c, label |-> 1]

\* AddPoint as it would be if the request carried the new point alone
AddPointSendingNew(c) ==
  /\ EditorShown
  /\ pointMode # "null"
  /\ Len(adds) < MaxAdds
  /\ Calls < MaxCalls
  /\ LET frameIdx == currentFrame
         old == IF frameIdx \in DOMAIN points THEN points[frameIdx] ELSE <<>>
         now == Append(old, CanvasPoint(c))
     IN /\ points' = Put(points, frameIdx, now)
        /\ adds' = IF sessionId = Null THEN adds
                   ELSE Append(adds, [sid |-> sessionId, frame |-> frameIdx,
                                      pts |-> PointsRequest(<<CanvasPoint(c)>>),
                                      st |-> "sent"])
  /\ UNCHANGED <<isLoading, currentVideo, sessionId, chatMessages, currentFrame, masks,
                 videoFrames, isProcessing, processingProgress, instructions>>
  /\ UNCHANGED <<viewVars, serverVars, selects, ends, props, chats>>
  /\ UNCHANGED <<effectVars, llmInput>>

\* handleCanvasClick: addPoint(point) up to the addPoints request
AddPoint(c) ==
  /\ EditorShown
  /\ pointMode # "null"
  /\ Len(adds) < MaxAdds
  /\ Calls < MaxCalls
  /\ LET frameIdx == currentFrame
         old == IF frameIdx \in DOMAIN points THEN points[frameIdx] ELSE <<>>
         now == Append(old, CanvasPoint(c))
     IN /\ points' = Put(points, frameIdx, now)
        /\ adds' = IF sessionId = Null THEN adds
                   ELSE Append(adds, [sid |-> sessionId, frame |-> frameIdx,
                                      pts |-> PointsRequest(now), st |-> "sent"])
  /\ UNCHANGED <<isLoading, currentVideo, sessionId, chatMessages, currentFrame, masks,
                 videoFrames, isProcessing, processingProgress, instructions>>
  /\ UNCHANGED <<viewVars, serverVars, selects, ends, props, chats>>
  /\ UNCHANGED <<effectVars, llmInput>>

\* StoreMasks as it would be if the masks of the frame were stored into a new
\* object, without the entries of the other frames
StoreMasksAlone(ms, frameIdx, result) ==
  Put(EmptyMap, frameIdx, [frame_idx |-> frameIdx, masks |-> result])

\* masks.value[frameIdx].masks = result.masks, creating the entry when absent
StoreMasks(ms, frameIdx, result) ==
  Put(ms, frameIdx, [frame_idx |-> IF frameIdx \in DOMAIN ms THEN ms[frameIdx].frame_idx
                                   ELSE frameIdx,
                     masks |-> result])

\* an addPoints request that has failed
Failed == [sid |-> Null, frame |-> 0, pts |-> NoPrompts, st |-> "failed"]

\* AddSettles as it would be if the catch block took the point back out of the
\* frame's list
AddSettlesDroppingPoint(i, ok) ==
  /\ i \in DOMAIN adds
  /\ adds[i].st = "sent"
  /\ IF ok
       THEN /\ masks' = StoreMasks(masks, adds[i].frame, SegResult(adds[i]))
            /\ props' = MarkAdd(props, adds[i].sid)
            /\ UNCHANGED points
       ELSE /\ points' = [f \in DOMAIN points |->
                           IF f = adds[i].frame /\ points[f] # <<>>
                             THEN SubSeq(points[f], 1, Len(points[f]) - 1)
                             ELSE points[f]]
            /\ UNCHANGED <<masks, props>>
  /\ adds' = SetAt(adds, i, IF ok THEN [adds[i] EXCEPT !.st = "ok"] ELSE Failed)
  /\ UNCHANGED <<isLoading, currentVideo, sessionId, chatMessages, currentFrame,
                 videoFrames, isProcessing, processingProgress, instructions>>
  /\ UNCHANGED <<viewVars, serverVars, selects, ends, chats>>
  /\ UNCHANGED <<effectVars, llmInput>>

\* AddSettles as it would be if the masks were stored under the frame that is
\* current when the response arrives
AddSettlesAtCurrentFrame(i, ok) ==
  /\ i \in DOMAIN adds
  /\ adds[i].st = "sent"
  /\ IF ok
       THEN /\ masks' = StoreMasks(masks, currentFrame, SegResult(adds[i]))
            /\ props' = MarkAdd(props, adds[i].sid)
       ELSE UNCHANGED <<masks, props>>
  /\ adds' = SetAt(adds, i, IF ok THEN [adds[i] EXCEPT !.st = "ok"] ELSE Failed)
  /\ UNCHANGED <<isLoading, currentVideo, sessionId, chatMessages, currentFrame, points,
                 videoFrames, isProcessing, processingProgress, instructions>>
  /\ UNCHANGED <<viewVars, serverVars, selects, ends, chats>>
  /\ UNCHANGED <<effectVars, llmInput>>

\* the addPoints request settles
AddSettles(i, ok) ==
  /\ i \in DOMAIN adds
  /\ adds[i].st = "sent"
  /\ IF ok
       THEN /\ masks' = StoreMasks(masks, adds[i].frame, SegResult(adds[i]))
            /\ props' = MarkAdd(props, adds[i].sid)
       ELSE UNCHANGED <<masks, props>>
  /\ adds' = SetAt(adds, i, IF ok THEN [adds[i] EXCEPT !.st = "ok"] ELSE Failed)
  /\ UNCHANGED <<isLoading, currentVideo, sessionId, chatMessages, currentFrame, points,
                 videoFrames, isProcessing, processingProgress, instructions>>
  /\ UNCHANGED <<viewVars, serverVars, selects, ends, chats>>
  /\ UNCHANGED <<effectVars, llmInput>>

(* ---------------------------- propagateMasks --------------------------- *)
\* the guard of propagateMasks: a session, and points on the start frame
PropagateGuard(startFrame) ==
  /\ sessionId # Null
  /\ startFrame \in DOMAIN points
  /\ Len(points[startFrame]) > 0

\* a propagateMasks call suspended at its propagate request. caller, mount and
\* chat say whose continuation runs when it returns; applied, pre, clean,
\* addSince and resetSeen record what happened to it.
NewProp(startFrame, caller, chat) ==
  [sid |-> sessionId, seed |-> startFrame, pc |-> "request", pos |-> 0,
   receivedFrames |-> 0, totalFrames |-> 0, caller |-> caller, mount |-> mount,
   chat |-> chat, applied |-> <<>>, pre |-> masks, clean |-> TRUE,
   addSince |-> FALSE, resetSeen |-> FALSE,
   seedPts |-> PointsRequest(points[startFrame]),
   returned |-> Pending]

\* FirstPointFrame as it would be if the keys came in descending order
LastPointFrame == Max(DOMAIN points)

\* Object.keys(points)[0]: integer keys come in ascending order
FirstPointFrame == Min(DOMAIN points)

\* EditorView.vue startTracking (button disabled while isProcessing or
\* without points): propagateMasks up to its propagate request
StartTracking ==
  /\ EditorShown
  /\ ~isProcessing
  /\ hasPoints
  /\ Len(props) < MaxProps
  /\ Calls < MaxCalls
  /\ IF PropagateGuard(FirstPointFrame)
       THEN /\ isProcessing' = TRUE
            /\ processingProgress' = 0
            /\ props' = Append(props, NewProp(FirstPointFrame, "track", 0))
            /\ UNCHANGED pointMode
       ELSE /\ pointMode' = "null"
            /\ UNCHANGED <<isProcessing, processingProgress, props>>
  /\ UNCHANGED <<isLoading, currentVideo, sessionId, chatMessages, currentFrame, points,
                 masks, videoFrames, instructions>>
  /\ UNCHANGED <<route, serverVars, selects, ends, adds, chats>>
  /\ UNCHANGED <<effectVars, llmInput>>

\* a propagateMasks call that its guard has turned away: it returns at once
Skipped == [Over EXCEPT !.pc = "skipped"]

\* propagateMasks called on the store by any component, up to its propagate
\* request or, where the guard fails, to its return
propagateMasks(startFrame) ==
  /\ Len(props) < MaxProps
  /\ Calls < MaxCalls
  /\ IF PropagateGuard(startFrame)
       THEN /\ isProcessing' = TRUE
            /\ processingProgress' = 0
            /\ props' = Append(props, NewProp(startFrame, "none", 0))
       ELSE /\ props' = Append(props, [Skipped EXCEPT !.sid = sessionId])
            /\ UNCHANGED <<isProcessing, processingProgress>>
  /\ UNCHANGED <<isLoading, currentVideo, sessionId, chatMessages, currentFrame, points,
                 masks, videoFrames, instructions>>
  /\ UNCHANGED <<viewVars, serverVars, selects, ends, adds, chats>>
  /\ UNCHANGED <<effectVars, llmInput>>

\* a propagation that has returned: its outcome and what it stored are kept
\* while it still owns masks
Ended(p, outcome) ==
  IF p.clean
    THEN [p EXCEPT !.pc = outcome, !.pos = 0, !.receivedFrames = 0, !.totalFrames = 0,
                   !.caller = "none", !.mount = 0, !.chat = 0, !.returned = Fulfilled]
    ELSE Over

\* Finish as it would be without the finally block of propagateMasks
FinishWithoutFinally(i, ps, outcome) ==
  /\ UNCHANGED <<isProcessing, processingProgress>>
  /\ props' = SetAt(ps, i, Ended(ps[i], outcome))
  /\ CASE props[i].caller = "track" ->
            /\ pointMode' = IF props[i].mount = mount THEN "null" ELSE pointMode
            /\ UNCHANGED <<isLoading, chats>>
       [] props[i].caller = "chat" ->
            /\ isLoading' = FALSE
            /\ chats' = SetAt(chats, props[i].chat,
                              [chats[props[i].chat] EXCEPT
                                 !.pc = "done", !.returned = ReturnedInstructions])
            /\ UNCHANGED pointMode
       [] OTHER -> UNCHANGED <<pointMode, isLoading, chats>>

\* the finally block of propagateMasks, then the caller's continuation:
\* startTracking leaves point mode (on the component that started it),
\* sendChatMessage returns through its own finally
Finish(i, ps, outcome) ==
  /\ isProcessing' = FALSE
  /\ processingProgress' = 100
  /\ props' = SetAt(ps, i, Ended(ps[i], outcome))
  /\ CASE props[i].caller = "track" ->
            /\ pointMode' = IF props[i].mount = mount THEN "null" ELSE pointMode
            /\ UNCHANGED <<isLoading, chats>>
       [] props[i].caller = "chat" ->
            /\ isLoading' = FALSE
            /\ chats' = SetAt(chats, props[i].chat,
                              [chats[props[i].chat] EXCEPT
                                 !.pc = "done", !.returned = ReturnedInstructions])
            /\ UNCHANGED pointMode
       [] OTHER -> UNCHANGED <<pointMode, isLoading, chats>>

\* the propagate request settles: a reader, or the error propagateInVideo throws
PropagateOpens(i) ==
  /\ i \in DOMAIN props
  /\ props[i].pc = "request"
  /\ props' = SetAt(props, i, [props[i] EXCEPT !.pc = "reading",
                                               !.receivedFrames = 0,
                                               !.totalFrames = TotalFrames(videoFrames)])
  /\ UNCHANGED <<storeVars, viewVars, serverVars, selects, ends, adds, chats>>
  /\ UNCHANGED <<effectVars, llmInput>>

PropagateRefused(i) ==
  /\ i \in DOMAIN props
  /\ props[i].pc = "request"
  /\ Finish(i, props, "refused")
  /\ UNCHANGED <<currentVideo, sessionId, chatMessages, currentFrame, points, masks,
                 videoFrames, instructions>>
  /\ UNCHANGED <<route, serverVars, selects, ends, adds>>
  /\ UNCHANGED <<effectVars, llmInput>>

\* ApplyLines as it would be if a line that does not parse ended the loop
RECURSIVE ApplyLinesUntilBad(_, _, _)
ApplyLinesUntilBad(lines, i, acc) ==
  IF lines = <<>> THEN acc
  ELSE IF Parses(Head(lines))
    THEN LET f == ParsedFrame(Head(lines))
             n == acc.receivedFrames + 1
         IN ApplyLinesUntilBad(Tail(lines), i,
              [masks |-> Put(acc.masks, f, [frame_idx |-> f, masks |-> PropResult(i)]),
               receivedFrames |-> n,
               progress |-> Progress(n, props[i].totalFrames),
               applied |-> Append(acc.applied, f)])
    ELSE acc

\* the for loop over the lines of one chunk: acc is the loop's state
RECURSIVE ApplyLines(_, _, _)
ApplyLines(lines, i, acc) ==
  IF lines = <<>> THEN acc
  ELSE IF Parses(Head(lines))
    THEN LET f == ParsedFrame(Head(lines))
             n == acc.receivedFrames + 1
         IN ApplyLines(Tail(lines), i,
              [masks |-> Put(acc.masks, f, [frame_idx |-> f, masks |-> PropResult(i)]),
               receivedFrames |-> n,
               progress |-> Progress(n, props[i].totalFrames),
               applied |-> Append(acc.applied, f)])
    ELSE ApplyLines(Tail(lines), i, acc)

\* reader.read() returns the next n pieces of the stream as one chunk
ReadChunk(i, n) ==
  /\ i \in DOMAIN props
  /\ props[i].pc = "reading"
  /\ n >= 1
  /\ props[i].pos + n <= Len(StreamFrom(props[i].seed))
  /\ LET text == SubSeq(StreamFrom(props[i].seed), props[i].pos + 1, props[i].pos + n)
         lines == Split(Trim(text))
         acc == ApplyLines(lines, i,
                  [masks |-> masks, receivedFrames |-> props[i].receivedFrames,
                   progress |-> processingProgress, applied |-> props[i].applied])
         wrote == acc.applied # props[i].applied
         me == [props[i] EXCEPT !.pos = @ + n,
                                !.receivedFrames = acc.receivedFrames,
                                !.applied = acc.applied]
     IN /\ masks' = acc.masks
        /\ processingProgress' = acc.progress
        /\ props' = IF wrote THEN Disturb(SetAt(props, i, me), i) ELSE SetAt(props, i, me)
  /\ UNCHANGED <<isLoading, currentVideo, sessionId, chatMessages, currentFrame, points,
                 videoFrames, isProcessing, instructions>>
  /\ UNCHANGED <<viewVars, serverVars, selects, ends, adds, chats>>
  /\ UNCHANGED <<effectVars, llmInput>>

\* reader.read() returns done: the stream has been read to its end
ReadDone(i) ==
  /\ i \in DOMAIN props
  /\ props[i].pc = "reading"
  /\ props[i].pos = Len(StreamFrom(props[i].seed))
  /\ Finish(i, props, "done")
  /\ UNCHANGED <<currentVideo, sessionId, chatMessages, currentFrame, points, masks,
                 videoFrames, instructions>>
  /\ UNCHANGED <<route, serverVars, selects, ends, adds>>
  /\ UNCHANGED <<effectVars, llmInput>>

\* ReadFails as it would be if the catch block undid the interrupted
\* propagation by putting back the masks of before the call
ReadFailsRollingBack(i) ==
  /\ i \in DOMAIN props
  /\ props[i].pc = "reading"
  /\ Finish(i, props, "failed")
  /\ masks' = IF props[i].clean THEN props[i].pre ELSE masks
  /\ UNCHANGED <<currentVideo, sessionId, chatMessages, currentFrame, points,
                 videoFrames, instructions>>
  /\ UNCHANGED <<route, serverVars, selects, ends, adds>>
  /\ UNCHANGED <<effectVars, llmInput>>

\* reader.read() rejects: the stream is interrupted
ReadFails(i) ==
  /\ i \in DOMAIN props
  /\ props[i].pc = "reading"
  /\ Finish(i, props, "failed")
  /\ UNCHANGED <<currentVideo, sessionId, chatMessages, currentFrame, points, masks,
                 videoFrames, instructions>>
  /\ UNCHANGED <<route, serverVars, selects, ends, adds>>
  /\ UNCHANGED <<effectVars, llmInput>>

(* ---------------------------- sendChatMessage -------------------------- *)
\* the chat input (disabled while isLoading): sendChatMessage up to the
\* process request
SendChat ==
  /\ EditorShown
  /\ ~isLoading
  /\ Len(chats) < MaxChats
  /\ Calls < MaxCalls
  /\ chatMessages' = Append(chatMessages, "user")
  /\ isLoading' = TRUE
  /\ chats' = Append(chats, [pc |-> "process", returned |-> Pending])
  /\ UNCHANGED <<currentVideo, sessionId, currentFrame, points, masks, videoFrames,
                 isProcessing, processingProgress, instructions>>
  /\ UNCHANGED <<viewVars, serverVars, selects, ends, adds, props>>
  /\ UNCHANGED <<effectVars, llmInput>>

\* ChatFails as it would be if the catch block put no message into the chat
ChatFailsSilently(i) ==
  /\ chatMessages' = chatMessages
  /\ isLoading' = FALSE
  /\ chats' = SetAt(chats, i, [chats[i] EXCEPT !.pc = "failed", !.returned = ReturnedNull])

\* the catch and finally blocks of sendChatMessage
ChatFails(i) ==
  /\ chatMessages' = Append(chatMessages, "error")
  /\ isLoading' = FALSE
  /\ chats' = SetAt(chats, i, [chats[i] EXCEPT !.pc = "failed", !.returned = ReturnedNull])

\* the process request settles with a reply: the parse request is sent
ProcessSettles(i) ==
  /\ i \in DOMAIN chats
  /\ chats[i].pc = "process"
  /\ chats' = SetAt(chats, i, [chats[i] EXCEPT !.pc = "parse"])
  /\ UNCHANGED <<storeVars, viewVars, serverVars, selects, ends, adds, props>>
  /\ UNCHANGED <<effectVars, llmInput>>

\* the process request fails, or its reply carries an error
ProcessFails(i) ==
  /\ i \in DOMAIN chats
  /\ chats[i].pc = "process"
  /\ ChatFails(i)
  /\ UNCHANGED <<currentVideo, sessionId, currentFrame, points, masks, videoFrames,
                 isProcessing, processingProgress, instructions>>
  /\ UNCHANGED <<viewVars, serverVars, selects, ends, adds, props>>
  /\ UNCHANGED <<effectVars, llmInput>>

\* the parse request settles: instructions and the bot message are stored, then
\* propagateMasks runs from the first frame with points, up to its request
ParseSettles(i) ==
  /\ i \in DOMAIN chats
  /\ chats[i].pc = "parse"
  /\ instructions' = i
  /\ chatMessages' = Append(chatMessages, "bot")
  /\ (hasPoints /\ PropagateGuard(FirstPointFrame)) => Len(props) < MaxProps
  /\ IF hasPoints /\ PropagateGuard(FirstPointFrame)
       THEN /\ isProcessing' = TRUE
            /\ processingProgress' = 0
            /\ props' = Append(props, NewProp(FirstPointFrame, "chat", i))
            /\ chats' = SetAt(chats, i, [chats[i] EXCEPT !.pc = "propagate"])
            /\ UNCHANGED isLoading
       ELSE /\ isLoading' = FALSE
            /\ chats' = SetAt(chats, i, [chats[i] EXCEPT
                                            !.pc = "done", !.returned = ReturnedInstructions])
            /\ UNCHANGED <<isProcessing, processingProgress, props>>
  /\ UNCHANGED <<currentVideo, sessionId, currentFrame, points, masks, videoFrames>>
  /\ UNCHANGED <<viewVars, serverVars, selects, ends, adds>>
  /\ UNCHANGED <<effectVars, llmInput>>

ParseFails(i) ==
  /\ i \in DOMAIN chats
  /\ chats[i].pc = "parse"
  /\ ChatFails(i)
  /\ UNCHANGED <<currentVideo, sessionId, currentFrame, points, masks, videoFrames,
                 isProcessing, processingProgress, instructions>>
  /\ UNCHANGED <<viewVars, serverVars, selects, ends, adds, props>>
  /\ UNCHANGED <<effectVars, llmInput>>

(* --------------------------- the specification ------------------------- *)
Next ==
  \/ \E v \in Videos : OpenEditor(v)
  \/ \E i \in 1..MaxSelects : SelectEndSettles(i, TRUE)
  \/ \E i \in 1..MaxSelects : SelectEndSettles(i, FALSE)
  \/ \E i \in 1..MaxSelects : CreateSettles(i, TRUE)
  \/ \E i \in 1..MaxSelects : CreateSettles(i, FALSE)
  \/ ReturnToGallery
  \/ \E i \in DOMAIN ends : EndSettles(i, TRUE)
  \/ \E i \in DOMAIN ends : EndSettles(i, FALSE)
  \/ GoToGallery
  \/ \E f \in Frames : OnTimeUpdate(f)
  \/ StartPointMode
  \/ ClearPoints
  \/ ResetSession
  \/ \E c \in Clicks : AddPoint(c)
  \/ \E i \in 1..MaxAdds : AddSettles(i, TRUE)
  \/ \E i \in 1..MaxAdds : AddSettles(i, FALSE)
  \/ StartTracking
  \/ \E i \in 1..MaxProps : PropagateOpens(i)
  \/ \E i \in 1..MaxProps : PropagateRefused(i)
  \/ \E i \in 1..MaxProps, n \in 1..Len(StreamFrom(0)) : ReadChunk(i, n)
  \/ \E i \in 1..MaxProps : ReadDone(i)
  \/ \E i \in 1..MaxProps : ReadFails(i)
  \/ SendChat
  \/ \E i \in 1..MaxChats : ProcessSettles(i)
  \/ \E i \in 1..MaxChats : ProcessFails(i)
  \/ \E i \in 1..MaxChats : ParseSettles(i)
  \/ \E i \in 1..MaxChats : ParseFails(i)

Spec == Init /\ [][Next]_vars

\* the session life cycle of the store under any component: selectVideo and
\* endSession, and beside the views' handlers the direct calls of endSession and
\* propagateMasks, whose guards the views never let fail
NextSession ==
  \/ \E v \in Videos : OpenEditor(v)
  \/ \E i \in 1..MaxSelects : SelectEndSettles(i, TRUE)
  \/ \E i \in 1..MaxSelects : SelectEndSettles(i, FALSE)
  \/ \E i \in 1..MaxSelects : CreateSettles(i, TRUE)
  \/ \E i \in 1..MaxSelects : CreateSettles(i, FALSE)
  \/ ReturnToGallery
  \/ endSession
  \/ \E i \in DOMAIN ends : EndSettles(i, TRUE)
  \/ \E i \in DOMAIN ends : EndSettles(i, FALSE)
  \/ GoToGallery
  \/ \E f \in Frames : propagateMasks(f)

SpecSession == Init /\ [][NextSession]_vars

\* propagations under a service that answers: one session, points, and the
\* propagations the Track Objects button and the chat start, which can
\* overlap. The propagate request of a call settles, and each read of its
\* stream settles: with a chunk, with done at the end of the stream, or with an
\* error.
NextPropagate ==
  \/ \E v \in Videos : OpenEditor(v)
  \/ \E i \in 1..MaxSelects : CreateSettles(i, TRUE)
  \/ StartPointMode
  \/ \E c \in Clicks : AddPoint(c)
  \/ StartTracking
  \/ \E i \in 1..MaxProps : PropagateOpens(i)
  \/ \E i \in 1..MaxProps : PropagateRefused(i)
  \/ \E i \in 1..MaxProps, n \in 1..Len(StreamFrom(0)) : ReadChunk(i, n)
  \/ \E i \in 1..MaxProps : ReadDone(i)
  \/ \E i \in 1..MaxProps : ReadFails(i)
  \/ SendChat
  \/ \E i \in 1..MaxChats : ProcessSettles(i)
  \/ \E i \in 1..MaxChats : ParseSettles(i)

RequestSettles(i) == PropagateOpens(i) \/ PropagateRefused(i)
ReadSettles(i) ==
  \/ \E n \in 1..Len(StreamFrom(0)) : ReadChunk(i, n)
  \/ ReadDone(i)
  \/ ReadFails(i)

SpecPropagate ==
  /\ Init
  /\ [][NextPropagate]_vars
  /\ \A i \in 1..MaxProps : WF_vars(RequestSettles(i)) /\ WF_vars(ReadSettles(i))

(* ----------------------- the replace effect: actions ------------------- *)
\* the variant of the effect is changed from outside, within 0..5
SetVariant(v) ==
  /\ v # variant
  /\ variant' = v
  /\ UNCHANGED <<gl, program, bitmap, customImage, useCustomImage, extraTexture, maskTextures>>
  /\ UNCHANGED <<glVars, lastDraw, setups, loads, wanted, editorVars, llmInput>>

\* setupUniforms, run by the setup of the effect with a context and a program,
\* up to the first icon request
setupUniforms ==
  /\ Len(setups) < MaxSetups
  /\ gl' = TRUE
  /\ program' = TRUE
  /\ extraTexture' = nextTex + 1
  /\ uNumMasks' = 0
  /\ uFill' = 0
  /\ uUseCustomImage' = useCustomImage
  /\ maskTextures' = [k \in 1..MaskSlots |-> nextTex + 1 + k]
  /\ nextTex' = nextTex + 1 + MaskSlots
  /\ content' = Blank
  /\ bitmap' = 0
  /\ setups' = Append(setups, "loading")
  /\ UNCHANGED <<variant, customImage, useCustomImage, deletedTex, activeUnit,
                 boundTex, lastDraw, loads, wanted, editorVars, llmInput>>

\* the three icons of a setupUniforms have been fetched and decoded
IconsLoaded(i) ==
  /\ i \in DOMAIN setups
  /\ setups[i] = "loading"
  /\ bitmap' = NumIcons
  /\ setups' = SetAt(setups, i, "done")
  /\ UNCHANGED <<variant, gl, program, customImage, useCustomImage, extraTexture, maskTextures>>
  /\ UNCHANGED <<glVars, lastDraw, loads, wanted, editorVars, llmInput>>

\* an icon request of a setupUniforms fails: setupUniforms rejects
IconsFail(i) ==
  /\ i \in DOMAIN setups
  /\ setups[i] = "loading"
  /\ setups' = SetAt(setups, i, "failed")
  /\ UNCHANGED <<fieldVars, glVars, lastDraw, loads, wanted, editorVars, llmInput>>

\* gl.bindTexture then gl.texImage2D on a unit: the upload reaches the texture
\* bound there, and is an INVALID_OPERATION, without effect, when none is
Upload(held, tex, what) == IF tex = Null THEN held ELSE what

\* this._maskTextures[index]: undefined beyond the textures there are, and
\* bindTexture takes undefined as null
MaskTexture(index) ==
  IF index + 1 \in DOMAIN maskTextures THEN maskTextures[index + 1] ELSE Null

\* the forEach over context.masks: each mask is bound and uploaded on its
\* unit; these are the indexes of the masks whose upload reaches a texture
UploadedMasks(m) ==
  {index \in 0..(m - 1) : Upload(Blank, MaskTexture(index), Holds("mask", index)) # Blank}

\* IconIndex as it would be if three variants in a row shared an icon
IconIndexByThrees(v, length) == (v \div 3) % length

\* Math.floor(this.variant / 2) % this._bitmap.length, for a pool that is not
\* empty (with an empty pool it is NaN, and nothing is indexed with it)
IconIndex(v, length) == (v \div 2) % length

\* this.variant % 2 === 0 ? 0 : 1
FillBg(v) == IF v % 2 = 0 THEN 0 ELSE 1

\* decode of jscocotools/mask on the mask of an index: it returns the
\* occupancy buffer, or throws on a run-length encoding it cannot decode
\* (bad = 0: every mask decodes; bad = k + 1: the mask of index k does not)
Decodes(index, bad) == bad # index + 1

\* the masks the forEach of apply gets through before a decode throws
Decoded(m, bad) ==
  Cardinality({index \in 0..(m - 1) : \A j \in 0..index : Decodes(j, bad)})

\* apply on a frame whose context has m masks (with no context or program the
\* invariant at its head throws and nothing happens). An exception of decode
\* leaves the forEach and apply, which catch nothing.
apply(m, bad) ==
  /\ gl /\ program
  /\ bad \in 0..m
  /\ LET iconIndex == IF bitmap = 0 THEN 0 ELSE IconIndex(variant, bitmap)
         from == IF useCustomImage /\ customImage # Null
                   THEN Upload(Blank, extraTexture, Holds("custom", customImage))
                 ELSE IF bitmap # 0
                   THEN Upload(Blank, extraTexture, Holds("icon", iconIndex))
                 ELSE Blank
         n == Decoded(m, bad)
     IN /\ uNumMasks' = m
        /\ uFill' = FillBg(variant)
        /\ uUseCustomImage' = useCustomImage
        /\ content' = (IF from = Blank THEN content ELSE from)
        /\ lastDraw' = [drawn |-> n = m, numMasks |-> m, uploaded |-> UploadedMasks(n),
                        from |-> from, bad |-> bad]
        /\ activeUnit' = IF n = 0 THEN ExtraTextureUnit
                         ELSE MasksTextureUnitStart + n - 1
        /\ boundTex' =
             IF n = m
               \* the unbinding: bindTexture(null) on the unit left active, then
               \* on the unit of each mask
               THEN [u \in Units |->
                       IF u = ExtraTextureUnit
                         THEN (IF m = 0 THEN Null ELSE extraTexture)
                       ELSE IF u < MasksTextureUnitStart + m THEN Null
                       ELSE boundTex[u]]
               \* the unbinding is not reached
               ELSE [u \in Units |->
                       IF u = ExtraTextureUnit THEN extraTexture
                       ELSE IF u < MasksTextureUnitStart + n
                         THEN MaskTexture(u - MasksTextureUnitStart)
                       ELSE boundTex[u]]
  /\ UNCHANGED <<fieldVars, nextTex, deletedTex, setups, loads, wanted, editorVars, llmInput>>

\* setCustomImage up to its fetch
setCustomImage(img) ==
  /\ Len(loads) < MaxLoads
  /\ loads' = Append(loads, [img |-> img, pc |-> "loading"])
  /\ wanted' = img
  /\ UNCHANGED <<fieldVars, glVars, lastDraw, setups, editorVars, llmInput>>

\* CustomLoaded as it would be if the switch to a custom image allocated the
\* mask textures anew
CustomLoadedReallocating(i) ==
  /\ i \in DOMAIN loads
  /\ loads[i].pc = "loading"
  /\ customImage' = loads[i].img
  /\ useCustomImage' = TRUE
  /\ IF gl /\ extraTexture # Null
       THEN /\ activeUnit' = ExtraTextureUnit
            /\ boundTex' = [boundTex EXCEPT ![ExtraTextureUnit] = extraTexture]
            /\ content' = Upload(content, extraTexture, Holds("custom", loads[i].img))
            /\ uUseCustomImage' = TRUE
            /\ maskTextures' = [k \in 1..MaskSlots |-> nextTex + k]
            /\ nextTex' = nextTex + MaskSlots
       ELSE UNCHANGED <<activeUnit, boundTex, content, uUseCustomImage, maskTextures,
                        nextTex>>
  /\ loads' = SetAt(loads, i, [img |-> Null, pc |-> "done"])
  /\ UNCHANGED <<variant, gl, program, bitmap, extraTexture, deletedTex,
                 uNumMasks, uFill, lastDraw, setups, wanted, editorVars, llmInput>>

\* the image of a setCustomImage has been fetched and decoded
CustomLoaded(i) ==
  /\ i \in DOMAIN loads
  /\ loads[i].pc = "loading"
  /\ customImage' = loads[i].img
  /\ useCustomImage' = TRUE
  /\ IF gl /\ extraTexture # Null
       THEN /\ activeUnit' = ExtraTextureUnit
            /\ boundTex' = [boundTex EXCEPT ![ExtraTextureUnit] = extraTexture]
            /\ content' = Upload(content, extraTexture, Holds("custom", loads[i].img))
            /\ uUseCustomImage' = TRUE
       ELSE UNCHANGED <<activeUnit, boundTex, content, uUseCustomImage>>
  /\ loads' = SetAt(loads, i, [img |-> Null, pc |-> "done"])
  /\ UNCHANGED <<variant, gl, program, bitmap, extraTexture, maskTextures, nextTex, deletedTex,
                 uNumMasks, uFill, lastDraw, setups, wanted, editorVars, llmInput>>

\* the fetch or the decoding of a setCustomImage fails: the catch block
CustomFails(i) ==
  /\ i \in DOMAIN loads
  /\ loads[i].pc = "loading"
  /\ useCustomImage' = FALSE
  /\ loads' = SetAt(loads, i, [img |-> Null, pc |-> "failed"])
  /\ UNCHANGED <<variant, gl, program, bitmap, customImage, extraTexture, maskTextures>>
  /\ UNCHANGED <<glVars, lastDraw, setups, wanted, editorVars, llmInput>>

\* resetToDefaultImages as it would be if it dropped the image and left the
\* flag as it is
resetToDefaultImagesKeepingFlag ==
  /\ wanted' = Null
  /\ useCustomImage' = useCustomImage
  /\ customImage' = Null
  /\ uUseCustomImage' = (IF gl THEN FALSE ELSE uUseCustomImage)
  /\ UNCHANGED <<variant, gl, program, bitmap, extraTexture, maskTextures, nextTex, deletedTex,
                 activeUnit, boundTex, content, uNumMasks, uFill, lastDraw, setups,
                 loads, editorVars, llmInput>>

resetToDefaultImages ==
  /\ wanted' = Null
  /\ useCustomImage' = FALSE
  /\ customImage' = Null
  /\ uUseCustomImage' = (IF gl THEN FALSE ELSE uUseCustomImage)
  /\ UNCHANGED <<variant, gl, program, bitmap, extraTexture, maskTextures, nextTex, deletedTex,
                 activeUnit, boundTex, content, uNumMasks, uFill, lastDraw, setups,
                 loads, editorVars, llmInput>>

\* super.cleanup(), of BaseGLEffect: the program is released and forgotten;
\* the context reference is either kept or dropped with it
superCleanup(drops) ==
  /\ program' = FALSE
  /\ gl' = (gl /\ ~drops)

\* cleanup, on an effect that has been set up: after super.cleanup(), and only
\* with a context still held, the mask textures are deleted and forgotten
cleanup(drops) ==
  /\ program
  /\ superCleanup(drops)
  /\ IF gl'
       THEN /\ deletedTex' = deletedTex \cup Range(maskTextures)
            /\ boundTex' = [u \in Units |->
                              IF boundTex[u] \in Range(maskTextures) THEN Null
                              ELSE boundTex[u]]
            /\ maskTextures' = <<>>
       ELSE UNCHANGED <<deletedTex, boundTex, maskTextures>>
  /\ UNCHANGED <<variant, bitmap, customImage, useCustomImage, extraTexture,
                 nextTex, activeUnit, content, uNumMasks, uFill, uUseCustomImage,
                 lastDraw, setups, loads, wanted, editorVars, llmInput>>

NextEffect ==
  \/ \E v \in Variants : SetVariant(v)
  \/ setupUniforms
  \/ \E i \in 1..MaxSetups : IconsLoaded(i)
  \/ \E i \in 1..MaxSetups : IconsFail(i)
  \/ \E m \in 0..MaxMasks : apply(m, 0)
  \/ \E img \in Images : setCustomImage(img)
  \/ \E i \in 1..MaxLoads : CustomLoaded(i)
  \/ \E i \in 1..MaxLoads : CustomFails(i)
  \/ resetToDefaultImages
  \/ \E drops \in BOOLEAN : cleanup(drops)

SpecEffect == Init /\ [][NextEffect]_vars

\* the render loop with the built-in icons, on frames of which a mask may fail
\* to decode
NextRender ==
  \/ \E v \in Variants : SetVariant(v)
  \/ setupUniforms
  \/ \E i \in 1..MaxSetups : IconsLoaded(i)
  \/ \E i \in 1..MaxSetups : IconsFail(i)
  \/ \E m \in 0..MaxMasks, bad \in 0..MaxMasks : apply(m, bad)
  \/ \E drops \in BOOLEAN : cleanup(drops)

SpecRender == Init /\ [][NextRender]_vars

(* --------------------------- the text prompt form ---------------------- *)
\* the texts of the input: empty, or a description
Prompts == {"", "Find the person in the video"}
Objects == 1..NumObjects

\* onChange of the input, or a click on an example
SetPrompt(p) ==
  /\ p # llmInput.prompt
  /\ llmInput' = [llmInput EXCEPT !.prompt = p]
  /\ UNCHANGED <<editorVars, effectVars>>

\* sessionAtom is set when a session is started and cleared when it is closed
SetSession(id) ==
  /\ id # llmInput.session
  /\ llmInput' = [llmInput EXCEPT !.session = id]
  /\ UNCHANGED <<editorVars, effectVars>>

\* handleSubmit, on a submit event of the form (there is no submit control and
\* the input is disabled while isProcessing): up to the commit of the mutation
handleSubmit ==
  /\ llmInput.submits < MaxSubmits
  /\ ~llmInput.isProcessing
  /\ IF llmInput.prompt = "" \/ llmInput.session = Null
       THEN llmInput' = [llmInput EXCEPT !.submits = @ + 1]
       ELSE llmInput' =
              [llmInput EXCEPT
                 !.submits = @ + 1,
                 !.isProcessing = TRUE,
                 !.result = NoResult,
                 !.commits = Append(@, [sessionId |-> llmInput.session,
                                        textPrompt |-> llmInput.prompt,
                                        pc |-> "sent", success |-> FALSE,
                                        objectId |-> Null])]
  /\ UNCHANGED <<editorVars, effectVars>>

\* onCompleted as it would be if the object id of every response were taken
onCompletedTakingAny(i, success, objectId) ==
  /\ i \in DOMAIN llmInput.commits
  /\ llmInput.commits[i].pc = "sent"
  /\ llmInput' =
       [llmInput EXCEPT
          !.isProcessing = FALSE,
          !.result = [shown |-> TRUE, success |-> success, message |-> "response"],
          !.activeTrackletObjectId = objectId,
          !.commits[i] = [@ EXCEPT !.pc = "completed", !.success = success,
                                   !.objectId = objectId]]
  /\ UNCHANGED <<editorVars, effectVars>>

\* onCompleted: the response of the mutation has arrived
onCompleted(i, success, objectId) ==
  /\ i \in DOMAIN llmInput.commits
  /\ llmInput.commits[i].pc = "sent"
  /\ llmInput' =
       [llmInput EXCEPT
          !.isProcessing = FALSE,
          !.result = [shown |-> TRUE, success |-> success, message |-> "response"],
          !.activeTrackletObjectId = IF success /\ objectId # Null THEN objectId ELSE @,
          !.commits[i] = [@ EXCEPT !.pc = "completed", !.success = success,
                                   !.objectId = objectId]]
  /\ UNCHANGED <<editorVars, effectVars>>

\* onError: the mutation has failed
onError(i) ==
  /\ i \in DOMAIN llmInput.commits
  /\ llmInput.commits[i].pc = "sent"
  /\ llmInput' =
       [llmInput EXCEPT
          !.isProcessing = FALSE,
          !.result = [shown |-> TRUE, success |-> FALSE, message |-> "error"],
          !.commits[i] = [@ EXCEPT !.pc = "errored"]]
  /\ UNCHANGED <<editorVars, effectVars>>

NextLLM ==
  \/ \E p \in Prompts : SetPrompt(p)
  \/ \E id \in {Null, 1} : SetSession(id)
  \/ handleSubmit
  \/ \E i \in 1..MaxSubmits, success \in BOOLEAN, objectId \in Objects \cup {Null} :
       onCompleted(i, success, objectId)
  \/ \E i \in 1..MaxSubmits : onError(i)

SpecLLM == Init /\ [][NextLLM]_vars

(* ----------------------------- the properties -------------------------- *)
\* the frames whose records a propagation from seed is sent, in order
RECURSIVE FramesFrom(_)
FramesFrom(f) == IF f > MaxFrame THEN <<>> ELSE <<f>> \o FramesFrom(f + 1)

\* masks as propagation i leaves them when nothing else writes: what was
\* there before, with the frames it has stored replaced by its records
Overlay(i) ==
  [f \in (DOMAIN props[i].pre) \cup Range(props[i].applied) |->
     IF f \in Range(props[i].applied)
       THEN [frame_idx |-> f, masks |-> PropResult(i)]
       ELSE props[i].pre[f]]

\* C1: the masks addPoint has stored for a frame are the result of the request
\* issued last among the answered requests of that session and frame.
C1_LatestAddWins ==
  \A f \in DOMAIN masks :
    masks[f].masks.src = "add" =>
      LET J == {j \in DOMAIN adds : /\ adds[j].st = "ok"
                                    /\ adds[j].frame = f
                                    /\ adds[j].sid = masks[f].masks.sid}
      IN J # {} => masks[f].masks = SegResult(adds[Max(J)])

\* C2: once the whole stream has been read, whatever the chunks were, the
\* records stored are the lines of the stream, each once and in order.
C2_EveryLineApplied ==
  \A i \in DOMAIN props :
    (props[i].pc = "reading" /\ props[i].pos = Len(StreamFrom(props[i].seed)))
      => props[i].applied = FramesFrom(props[i].seed)

\* C3: after addPoint has written masks of a session while a propagation of
\* that session was between two of its writes, the propagation writes no more,
\* i.e. no addPoint write lies between the first and the last write of a
\* propagation.
C3_NoAddInsidePropagation ==
  [][\A i \in DOMAIN props :
       (props[i].pc = "reading" /\ props'[i].pc = "reading" /\ props[i].addSince)
         => props'[i].applied = props[i].applied]_vars

\* C4: every session that exists on the service is the one the store holds.
C4_AtMostOneSession == serverSessions \subseteq {sessionId}

\* C5: after a propagation has failed, and as long as nothing else has written
\* masks since it started, masks are what they were before it started with the
\* frames it stored replaced by the records the stream delivered.
C5_FailureKeepsMasks ==
  \A i \in DOMAIN props :
    (props[i].pc \in {"failed", "refused"} /\ props[i].clean) => masks = Overlay(i)

C5_Witness ==
  \E i \in DOMAIN props :
    /\ props[i].pc = "failed"
    /\ props[i].clean
    /\ props[i].applied = <<0>>
    /\ 1 \in DOMAIN masks
    /\ masks[1].masks.src = "add"

\* C6: a propagation that was in flight when the user reset the editor state
\* stores no further frame record.
C6_ResetCancelsPropagation ==
  [][\A i \in DOMAIN props :
       (props[i].pc = "reading" /\ props'[i].pc = "reading" /\ props[i].resetSeen)
         => props'[i].applied = props[i].applied]_vars

\* C7: at most one propagation stream is being read at any time.
C7_AtMostOneStream ==
  Cardinality({i \in DOMAIN props : props[i].pc = "reading"}) <= 1

\* C8: every entry of masks is data of the session the store holds.
C8_MasksOfActiveSession ==
  \A f \in DOMAIN masks : masks[f].masks.sid = sessionId

\* C9: while a propagation is in flight processingProgress never decreases.
C9_ProgressMonotone ==
  [][(\E i \in DOMAIN props : InFlight(props[i]))
       => processingProgress' >= processingProgress]_vars

\* C10: while a propagation is in flight (its stream has neither ended nor
\* failed) processingProgress is below 100.
C10_Below100InFlight ==
  (\E i \in DOMAIN props : InFlight(props[i])) => processingProgress < 100

\* C11: a propagation that was interrupted (its request refused, or a read of
\* its stream rejected) has failed towards its caller with
\* PropagationInterrupted, which tells it from one that has run to the end.
C11_InterruptionReported ==
  \A i \in DOMAIN props :
    props[i].pc \in {"failed", "refused"} =>
      /\ props[i].returned.settled = "rejected"
      /\ props[i].returned.value = "PropagationInterrupted"

\* C12: a propagateMasks call made while the store holds no session ends in an
\* error (SessionNotFound), sends no propagate request and changes no mask.
C12_NoSessionIsAnError ==
  [][(Len(props') = Len(props) + 1 /\ sessionId = Null) =>
       LET r == props'[Len(props')]
       IN /\ r.returned.settled = "rejected"
          /\ r.returned.value = "SessionNotFound"
          /\ ~InFlight(r)
          /\ masks' = masks]_vars

\* the points of a frame, none when the frame has no entry
PointsOn(ps, f) == IF f \in DOMAIN ps THEN ps[f] ELSE <<>>

\* C13: an addPoint appends its point to the list of the current frame and
\* sends that whole list, in the order of addition and with the labels
\* index-aligned; the lists of the other frames are left alone and not sent.
C13_PromptsAccumulate ==
  [][Len(adds') = Len(adds) + 1 =>
       LET r == adds'[Len(adds')]
           old == PointsOn(points, r.frame)
           now == PointsOn(points', r.frame)
       IN /\ r.frame = currentFrame
          /\ Len(now) = Len(old) + 1
          /\ SubSeq(now, 1, Len(old)) = old
          /\ DOMAIN r.pts.points = 1..Len(now)
          /\ DOMAIN r.pts.labels = 1..Len(now)
          /\ \A k \in 1..Len(now) : /\ r.pts.points[k] = <<now[k].x, now[k].y>>
                                      /\ r.pts.labels[k] = now[k].label
          /\ \A g \in DOMAIN points \ {r.frame} :
               g \in DOMAIN points' /\ points'[g] = points[g]]_vars

C13_Witness ==
  \E i \in DOMAIN adds :
    /\ adds[i].st = "sent"
    /\ adds[i].pts.points = <<<<2, 2>>, <<1, 1>>>>
    /\ adds[i].pts.labels = <<1, 1>>

\* C14: the point of an addPoint is in the frame's list from the call on, and
\* when the request fails the lists of points and the masks of every frame
\* stay as they are, so that the next addPoint on the frame sends the point again.
C14_FailedAddKeepsPoint ==
  [][/\ Len(adds') = Len(adds) + 1 =>
          LET r == adds'[Len(adds')]
          IN /\ r.frame \in DOMAIN points'
             /\ Len(points'[r.frame]) = Len(PointsOn(points, r.frame)) + 1
             /\ r.pts = PointsRequest(points'[r.frame])
     /\ \A i \in DOMAIN adds :
          (adds[i].st = "sent" /\ adds'[i].st = "failed") =>
            (masks' = masks /\ points' = points)]_vars

C14_Witness ==
  \E i, j \in DOMAIN adds :
    /\ i < j
    /\ adds[i].st = "failed"
    /\ adds[j].st = "sent"
    /\ adds[j].pts = PointsRequest(points[adds[j].frame])
    /\ Len(points[adds[j].frame]) = 2

\* C15: when the same point has been added twice to a frame, the masks stored
\* for the frame by the second request are those that adding it once stores.
C15_ReAddIsIdempotent ==
  \A f \in (DOMAIN points) \cap (DOMAIN masks) :
    (/\ Len(points[f]) = 2
     /\ points[f][1] = points[f][2]
     /\ masks[f].masks.src = "add"
     /\ masks[f].masks.pts = PointsRequest(points[f]))
      => masks[f].masks = SegResult([sid |-> masks[f].masks.sid, frame |-> f,
                                     pts |-> PointsRequest(<<points[f][1]>>),
                                     st |-> "ok"])

\* C16: when a propagation stores the record of a frame, the masks that frame
\* had of objects without a mask on the seed frame are still there, and the
\* entries of the frames it does not store are unchanged; this already where
\* nothing else has written masks since the propagation started.
C16_OtherObjectsKept ==
  [][\A i \in DOMAIN props :
       (/\ props[i].pc = "reading"
        /\ props'[i].pc = "reading"
        /\ props[i].clean
        /\ props'[i].applied # props[i].applied) =>
         LET new == Range(props'[i].applied) \ Range(props[i].applied)
         IN /\ \A f \in new \cap DOMAIN masks :
                 \A o \in MaskObjects(masks[f].masks) \ MaskObjects(PropResult(i)) :
                   o \in MaskObjects(masks'[f].masks)
            /\ \A f \in (DOMAIN masks) \ Range(props'[i].applied) :
                 f \in DOMAIN masks' /\ masks'[f] = masks[f]]_vars

\* C17: an endSession call made without a session returns without an error and
\* changes nothing; when the delete request of an endSession settles, whether it
\* succeeded or failed, the store is left without a session, without a video
\* and with the editor state reset, which is also how a second call leaves it.
C17_EndSessionIdempotent ==
  [][/\ (Len(ends') = Len(ends) + 1 /\ sessionId = Null) =>
          /\ ends'[Len(ends')] = Returned
          /\ UNCHANGED <<storeVars, serverVars>>
     /\ Len(ends') < Len(ends) =>
          /\ sessionId' = Null
          /\ currentVideo' = Null
          /\ points' = EmptyMap
          /\ masks' = EmptyMap
          /\ chatMessages' = <<>>
          /\ instructions' = Null
          /\ ~isProcessing']_vars

C17_Witness ==
  /\ \E i \in DOMAIN ends : ends[i] = Returned
  /\ created = 1
  /\ serverSessions = {1}
  /\ sessionId = Null
  /\ currentVideo = Null

\* C18: a selectVideo has its create request in flight only once the delete
\* request it issued for the session held before has settled, and when its
\* create request succeeds the store holds the new session and no points,
\* masks, chat messages or instructions.
C18_SessionReplaced ==
  [][/\ \A i \in DOMAIN selects' :
          selects'[i].pc = "awaitCreate" => selects'[i].sid = Null
     /\ \A i \in DOMAIN selects :
          (selects[i].pc = "awaitCreate" /\ selects'[i].pc = "done"
             /\ created' # created) =>
            /\ sessionId' = created'
            /\ sessionId' \in serverSessions'
            /\ sessionId' \notin serverSessions
            /\ points' = EmptyMap
            /\ masks' = EmptyMap
            /\ chatMessages' = <<>>
            /\ instructions' = Null
            /\ ~isLoading']_vars

C18_Witness ==
  /\ Len(selects) = 2
  /\ selects[2].pc = "done"
  /\ sessionId = 2
  /\ Len(ends) = 1
  /\ ends[1].sid = 1

\* C19: when the create request of a selectVideo fails, the store is left without
\* a session and without a video, not loading, and with the editor state empty.
C19_FailedCreateResets ==
  [][\A i \in DOMAIN selects :
       (selects[i].pc = "awaitCreate" /\ selects'[i].pc = "done"
          /\ created' = created) =>
         /\ sessionId' = Null
         /\ currentVideo' = Null
         /\ ~isLoading'
         /\ points' = EmptyMap
         /\ masks' = EmptyMap
         /\ chatMessages' = <<>>
         /\ instructions' = Null]_vars

\* C20: whatever the number of masks of the frame, the mask count the shader is
\* given is at most the 3 pre-allocated slots, and no mask of index 3 or more
\* is uploaded.
C20_AtMostThreeMasks ==
  /\ uNumMasks <= MaskSlots
  /\ lastDraw.numMasks <= MaskSlots
  /\ \A index \in lastDraw.uploaded : index < MaskSlots

\* the effect has been set up and has been torn down since
Released == nextTex > 0 /\ ~program

\* C21: after cleanup every texture created by the setupUniforms runs before it
\* has been deleted: the replacement texture and the three mask textures of
\* each run
C21_AllTexturesDeleted == Released => (1..nextTex) \subseteq deletedTex

\* C22: once cleanup has run, and until the effect is set up again, no call
\* of the effect binds a texture or uploads to one: the active unit, the
\* bindings of the units and what the replacement texture holds stay as they
\* are, also when the image of a setCustomImage arrives after the cleanup
C22_NoUseAfterRelease ==
  [][(Released /\ Released') => UNCHANGED <<activeUnit, boundTex, content>>]_vars

\* C23: a step of setCustomImage or resetToDefaultImages, which switches
\* between the icons and a custom image, leaves the mask textures, the
\* textures bound on the mask units, the program and the context, the icon
\* bitmaps and the textures created and deleted as they were
C23_SwitchKeepsTheRest ==
  [][(loads' # loads \/ useCustomImage' # useCustomImage \/ customImage' # customImage)
       => /\ maskTextures' = maskTextures
          /\ \A u \in Units \ {ExtraTextureUnit} : boundTex'[u] = boundTex[u]
          /\ program' = program
          /\ gl' = gl
          /\ bitmap' = bitmap
          /\ nextTex' = nextTex
          /\ deletedTex' = deletedTex]_vars

\* a custom image has been switched to, on an effect that holds its mask
\* textures and its icons
C23_Witness ==
  /\ useCustomImage
  /\ content = Holds("custom", customImage)
  /\ Len(maskTextures) = MaskSlots
  /\ bitmap = NumIcons
  /\ \E i \in DOMAIN loads : loads[i].pc = "done"

\* C24: every apply that draws has filled the replacement texture from one
\* source, the custom image or an icon, also while setupUniforms is still
\* loading the icons
C24_OneSourceUploaded == lastDraw.drawn => lastDraw.from.kind \in {"icon", "custom"}

\* C25: when the decoding of one mask fails in apply, the frame is still
\* drawn and the masks of the other objects that have a texture are still
\* uploaded
C25_DecodeFailureScoped ==
  lastDraw.bad # 0 =>
    /\ lastDraw.drawn
    /\ \A index \in 0..(lastDraw.numMasks - 1) :
         (index # lastDraw.bad - 1 /\ index < MaskSlots) => index \in lastDraw.uploaded

\* C26: when the delete request of an endSession settles that was called for
\* another session than the one the store holds now, the session id, the
\* current video and the editor state of the session held stay as they are
C26_LateEndSparesNewSession ==
  [][\A i \in DOMAIN ends :
       (/\ ends[i].pc = "awaitEnd"
        /\ ends' = Remove(ends, i)
        /\ sessionId # Null
        /\ ends[i].sid # sessionId)
         => UNCHANGED <<sessionId, currentVideo, points, masks, currentFrame,
                        chatMessages, instructions>>]_vars

\* C27: when an addPoints request for frame f succeeds, the masks of frame f
\* become the list the service returned, the entries of masks for the other
\* frames stay as they were, and so do the points
C27_AddWritesOneFrame ==
  [][\A i \in DOMAIN adds :
       (adds[i].st = "sent" /\ adds'[i].st = "ok")
         => /\ adds[i].frame \in DOMAIN masks'
            /\ masks'[adds[i].frame].masks = SegResult(adds[i])
            /\ \A g \in Frames \ {adds[i].frame} :
                 /\ g \in DOMAIN masks' <=> g \in DOMAIN masks
                 /\ g \in DOMAIN masks => masks'[g] = masks[g]
            /\ points' = points]_vars

\* an add has stored its masks for one frame beside the masks of another frame
C27_Witness ==
  \E i \in DOMAIN adds :
    /\ adds[i].st = "ok"
    /\ DOMAIN masks = Frames
    /\ masks[adds[i].frame].masks = SegResult(adds[i])
    /\ \E g \in Frames : masks[g].masks # SegResult(adds[i])

\* C28: when an addPoints request succeeds after the current frame has moved
\* away from the frame of the point, the masks are stored under the frame of
\* the point, whose prompts the request carried, and the entry of the frame
\* that is current now stays as it was
C28_StoredUnderFrameOfPoint ==
  [][\A i \in DOMAIN adds :
       (adds[i].st = "sent" /\ adds'[i].st = "ok" /\ currentFrame # adds[i].frame)
         => /\ adds[i].frame \in DOMAIN masks'
            /\ masks'[adds[i].frame].masks = SegResult(adds[i])
            /\ currentFrame \in DOMAIN masks' <=> currentFrame \in DOMAIN masks
            /\ currentFrame \in DOMAIN masks
                  => masks'[currentFrame] = masks[currentFrame]]_vars

\* the masks of a point added on frame 0 have arrived while frame 1 is
\* current, and frame 0 alone has masks
C28_Witness ==
  \E i \in DOMAIN adds :
    /\ adds[i].st = "ok"
    /\ adds[i].frame = 0
    /\ currentFrame = 1
    /\ 0 \in DOMAIN points
    /\ adds[i].pts = PointsRequest(points[0])
    /\ DOMAIN masks = {0}
    /\ masks[0].masks = SegResult(adds[i])

\* the lines of the chunk a reading step of propagation i has taken
ChunkLines(i) ==
  Split(Trim(SubSeq(StreamFrom(props[i].seed), props[i].pos + 1, props'[i].pos)))

\* C29: of the lines of a chunk, those that do not parse change no mask and
\* count for nothing, and every line that parses is applied and counted,
\* whatever lines came before it
C29_BadLineSkipped ==
  [][\A i \in DOMAIN props :
       (props[i].pc = "reading" /\ props'[i].pc = "reading" /\ props'[i].pos > props[i].pos)
         => \A lines \in {ChunkLines(i)} :
              \A good \in {{k \in DOMAIN lines : Parses(lines[k])}} :
                \A stored \in {{ParsedFrame(lines[k]) : k \in good}} :
                  /\ props'[i].receivedFrames = props[i].receivedFrames + Cardinality(good)
                  /\ \A f \in stored :
                       /\ f \in DOMAIN masks'
                       /\ masks'[f] = [frame_idx |-> f, masks |-> PropResult(i)]
                  /\ \A f \in Frames \ stored :
                       /\ f \in DOMAIN masks' <=> f \in DOMAIN masks
                       /\ f \in DOMAIN masks => masks'[f] = masks[f]
                  /\ processingProgress' =
                       (IF good = {} THEN processingProgress
                        ELSE Progress(props'[i].receivedFrames, props[i].totalFrames))]_vars

\* a stream from frame 0 has been read to its end, the line of frame 0 did not
\* parse, and the line of frame 1 after it was applied and counted
C29_Witness ==
  \E i \in DOMAIN props :
    /\ props[i].pc = "reading"
    /\ props[i].seed = 0
    /\ props[i].pos = Len(StreamFrom(0))
    /\ props[i].applied = <<1>>
    /\ props[i].receivedFrames = 1
    /\ 1 \in DOMAIN masks
    /\ masks[1] = [frame_idx |-> 1, masks |-> PropResult(i)]

\* C30: isProcessing is true exactly while a propagateMasks call is at its
\* propagate request or reading its stream
C30_ProcessingIffPropagating ==
  isProcessing <=> \E i \in DOMAIN props : InFlight(props[i])

\* C34: once no setCustomImage is in flight, and none has failed, the
\* replacement source in use is the one the latest call of setCustomImage or
\* resetToDefaultImages asked for
C34_LatestCallWins ==
  (\A i \in DOMAIN loads : loads[i].pc = "done")
    => IF wanted = Null THEN ~useCustomImage
       ELSE useCustomImage /\ customImage = wanted

\* C35: a setCustomImage whose load fails leaves the custom-image flag and the
\* custom image as they were before
C35_FailedLoadKeepsSource ==
  [][\A i \in DOMAIN loads :
       (loads[i].pc = "loading" /\ loads'[i].pc = "failed")
         => useCustomImage' = useCustomImage /\ customImage' = customImage]_vars

\* C36: whenever the custom-image flag is on, a custom image is held
C36_FlagImpliesImage == useCustomImage => customImage # Null

\* the flag is on with an image held, after a load that failed
C36_Witness ==
  /\ useCustomImage
  /\ customImage # Null
  /\ \E i \in DOMAIN loads : loads[i].pc = "failed"

\* C40: the icon index and the fill flag of the variant set them apart from
\* every other variant, the icon index is one of the three icons, and so is
\* the icon an apply has uploaded
C40_VariantsOneToOne ==
  /\ IconIndex(variant, NumIcons) \in 0..(NumIcons - 1)
  /\ FillBg(variant) \in {0, 1}
  /\ \A w \in Variants \ {variant} :
       <<IconIndex(w, NumIcons), FillBg(w)>>
         # <<IconIndex(variant, NumIcons), FillBg(variant)>>
  /\ lastDraw.from.kind = "icon" => lastDraw.from.of \in 0..(NumIcons - 1)

\* the last variant is set, and an apply has uploaded the last icon and set
\* the fill flag
C40_Witness ==
  /\ variant = NumVariants - 1
  /\ lastDraw.drawn
  /\ lastDraw.from = Holds("icon", NumIcons - 1)
  /\ uFill = 1

\* C37: after an apply that has drawn, no texture is bound on unit 1 nor on
\* the unit of any of its masks
C37_NothingLeftBound ==
  lastDraw.drawn =>
    /\ boundTex[ExtraTextureUnit] = Null
    /\ \A index \in 0..(lastDraw.numMasks - 1) :
         boundTex[MasksTextureUnitStart + index] = Null

\* C38: a response changes the active object id only when it reports success
\* with an object id, an error never does; each of them ends isProcessing and
\* shows a result; a submit with an empty prompt or without a session sends
\* no mutation
C38_TextPromptOutcome ==
  [][/\ \A i \in DOMAIN llmInput.commits :
          (llmInput.commits[i].pc = "sent" /\ llmInput'.commits[i].pc # "sent")
            => /\ llmInput'.activeTrackletObjectId =
                    (IF /\ llmInput'.commits[i].pc = "completed"
                        /\ llmInput'.commits[i].success
                        /\ llmInput'.commits[i].objectId # Null
                      THEN llmInput'.commits[i].objectId
                      ELSE llmInput.activeTrackletObjectId)
               /\ ~llmInput'.isProcessing
               /\ llmInput'.result.shown
     /\ (/\ llmInput'.submits # llmInput.submits
         /\ (llmInput.prompt = "" \/ llmInput.session = Null))
           => llmInput'.commits = llmInput.commits]_vars

\* a response without success has left the active object id of an earlier,
\* successful response in place
C38_Witness ==
  \E i, j \in DOMAIN llmInput.commits :
    /\ i < j
    /\ llmInput.commits[i].pc = "completed"
    /\ llmInput.commits[i].success
    /\ llmInput.commits[i].objectId = 1
    /\ llmInput.commits[j].pc = "completed"
    /\ ~llmInput.commits[j].success
    /\ llmInput.commits[j].objectId = 2
    /\ llmInput.activeTrackletObjectId = 1
    /\ ~llmInput.isProcessing
    /\ llmInput.result.shown

\* C39: a press of Clear Points or Reset leaves points, masks, chat messages,
\* video frames and instructions empty, the current frame and the progress at 0
\* and isProcessing false, keeps the session and the video, and sends no
\* request: no call of the store is started or settled and the service is not
\* touched. The values left do not depend on the state before, so a second
\* press leaves what the first one left.
C39_ResetEditorState ==
  [][(ClearPoints \/ ResetSession) =>
       /\ points' = EmptyMap
       /\ masks' = EmptyMap
       /\ chatMessages' = <<>>
       /\ videoFrames' = 0
       /\ instructions' = Null
       /\ currentFrame' = 0
       /\ processingProgress' = 0
       /\ isProcessing' = FALSE
       /\ sessionId' = sessionId
       /\ currentVideo' = currentVideo
       /\ UNCHANGED <<serverVars, selects, ends, adds, chats>>
       /\ Len(props') = Len(props)
       /\ \A i \in DOMAIN props : InFlight(props'[i]) => props'[i].pc = props[i].pc]_vars

\* the editor state has been reset under a propagation in flight and an
\* answered addPoint of the session held
C39_Witness ==
  /\ \E i \in DOMAIN props : props[i].resetSeen /\ props[i].sid = sessionId
  /\ \E j \in DOMAIN adds : adds[j].st = "ok" /\ adds[j].sid = sessionId
  /\ points = EmptyMap
  /\ masks = EmptyMap
  /\ chatMessages = <<>>
  /\ processingProgress = 0
  /\ ~isProcessing
  /\ currentVideo # Null

\* C33: when the parse request of a chat message settles with instructions, the
\* instructions are stored and the bot reply is appended, and then: with points
\* on some frame one propagate request goes out, for the session held and from
\* the lowest frame that has points, the instructions and the reply being in
\* place when it goes out; without points no propagation is started and the
\* call returns.
C33_ChatStartsPropagation ==
  [][\A i \in DOMAIN chats :
       (chats[i].pc = "parse" /\ chats'[i].pc \in {"propagate", "done"}) =>
         /\ instructions' = i
         /\ chatMessages' = Append(chatMessages, "bot")
         /\ IF DOMAIN points # {}
              THEN /\ Len(props') = Len(props) + 1
                   /\ props'[Len(props')].pc = "request"
                   /\ props'[Len(props')].seed = Min(DOMAIN points)
                   /\ props'[Len(props')].sid = sessionId
                   /\ props'[Len(props')].chat = i
                   /\ chats'[i].pc = "propagate"
              ELSE /\ Len(props') = Len(props)
                   /\ \A j \in DOMAIN props : props'[j].pc = props[j].pc
                   /\ chats'[i].pc = "done"]_vars

\* a chat message has started a propagation with points on two frames
C33_Witness ==
  \E j \in DOMAIN props :
    /\ props[j].caller = "chat"
    /\ props[j].pc = "request"
    /\ Cardinality(DOMAIN points) = 2
    /\ props[j].seed = Min(DOMAIN points)
    /\ instructions = props[j].chat
    /\ chatMessages = <<"user", "bot">>

\* C32: when the process request fails or its reply carries an error, or the
\* parse request fails, the call appends one error message to the chat, which
\* then follows the user's message, leaves instructions as they are, starts no
\* propagation, returns null and leaves isLoading false.
C32_ChatErrorHandled ==
  [][\A i \in DOMAIN chats :
       (chats[i].pc \in {"process", "parse"} /\ chats'[i].pc = "failed") =>
         /\ chatMessages' = Append(chatMessages, "error")
         /\ instructions' = instructions
         /\ Len(props') = Len(props)
         /\ \A j \in DOMAIN props : props'[j].pc = props[j].pc
         /\ chats'[i].returned = ReturnedNull
         /\ isLoading' = FALSE]_vars

\* a request of a chat message has failed with points in the store: the
\* error message follows the user's message and nothing was propagated
C32_Witness ==
  /\ \E i \in DOMAIN chats : chats[i].pc = "failed" /\ chats[i].returned = ReturnedNull
  /\ chatMessages = <<"user", "error">>
  /\ DOMAIN points # {}
  /\ props = <<>>
  /\ instructions = Null
  /\ ~isLoading

\* C31: every propagateMasks call that has passed its guard returns, given that
\* its request and the reads of its stream settle, and the step on which it
\* returns leaves isProcessing false and processingProgress 100, whether the
\* stream was read to its end, a read failed or the request was refused.
C31_PropagationTerminates ==
  /\ \A i \in 1..MaxProps :
       (i \in DOMAIN props /\ InFlight(props[i]))
         ~> (i \in DOMAIN props /\ ~InFlight(props[i]))
  /\ [][\A i \in DOMAIN props :
          (InFlight(props[i]) /\ ~InFlight(props'[i])) =>
            (isProcessing' = FALSE /\ processingProgress' = 100)]_vars

\* a propagation has returned after a failed read, with a frame stored before
C31_Witness ==
  \E i \in DOMAIN props :
    /\ props[i].pc = "failed"
    /\ props[i].applied # <<>>
    /\ ~isProcessing
    /\ processingProgress = 100

====
